---- MODULE Spec2Model ----
(***************************************************************************)
(* A model of the LibreOffice MCP server's document tools                  *)
(* (src/src/libremcp.py): create_document, read_document_text and          *)
(* insert_text_at_position, together with the helpers they call: the       *)
(* external converter (_run_libreoffice_command), the container writer     *)
(* (_create_minimal_odt and the inline fallback of create_document) and    *)
(* the container reader (_extract_text_from_odt).                          *)
(*                                                                         *)
(* Text is a sequence of one-character strings.  The markup of a           *)
(* content.xml entry is a sequence of tokens: a tag the templates of the   *)
(* source write literally is one token ("<text:p>"), every other character *)
(* is a token of its own, so that unescaped user text lands in the markup  *)
(* character by character, as the f-strings of the source put it there.    *)
(***************************************************************************)
EXTENDS Integers, Sequences, FiniteSets, TLC

(***************************************************************************)
(* Bounds of the model.                                                    *)
(***************************************************************************)
\* longest text a caller passes to create_document / insert_text_at_position
MaxText == 1
\* longest body insert_text_at_position is let to build
MaxContent == 3

\* longest run of character data between two tags of a container handed
\* to the container reader
MaxRun == 1

\* largest duration_seconds a watch is asked for, largest file size and
\* latest modification time a watched file comes to have, and the longest
\* one poll of a watch takes, in seconds
MaxDuration == 2

MaxSize == 2

MaxMtime == 2

MaxPoll == 2

\* the characters callers' texts are made of: a letter, the line boundary,
\* a blank, and two markup-special characters
Alphabet == {"a", "\n", " ", "<", "&"}

Texts == UNION {[1..k -> Alphabet] : k \in 0..MaxText}

(***************************************************************************)
(* Strings, as Python's str methods compute them.                          *)
(***************************************************************************)
Whitespace == {" ", "\n", "\t", "\r"}

RECURSIVE LStrip(_)
LStrip(s) ==
  IF s # <<>> /\ Head(s) \in Whitespace THEN LStrip(Tail(s)) ELSE s

RECURSIVE RStrip(_)
RStrip(s) ==
  IF s # <<>> /\ s[Len(s)] \in Whitespace
  THEN RStrip(SubSeq(s, 1, Len(s) - 1))
  ELSE s

\* str.strip()
Strip(s) == RStrip(LStrip(s))

\* str.split(sep) for a one-character separator: never returns an empty list
RECURSIVE Split(_, _)
Split(s, sep) ==
  IF \E i \in 1..Len(s) : s[i] = sep
  THEN LET i == CHOOSE k \in 1..Len(s) :
                  s[k] = sep /\ \A j \in 1..(k - 1) : s[j] # sep
       IN <<SubSeq(s, 1, i - 1)>> \o Split(SubSeq(s, i + 1, Len(s)), sep)
  ELSE <<s>>

\* sep.join(parts)
RECURSIVE Join(_, _)
Join(parts, sep) ==
  IF parts = <<>> THEN <<>>
  ELSE IF Len(parts) = 1 THEN parts[1]
  ELSE parts[1] \o sep \o Join(Tail(parts), sep)

(***************************************************************************)
(* html.escape(content), quote=True: & first, then < > " '                 *)
(***************************************************************************)
EscapeChar(c) ==
  CASE c = "&"  -> <<"&", "a", "m", "p", ";">>
    [] c = "<"  -> <<"&", "l", "t", ";">>
    [] c = ">"  -> <<"&", "g", "t", ";">>
    [] c = "\"" -> <<"&", "q", "u", "o", "t", ";">>
    [] c = "'"  -> <<"&", "#", "x", "2", "7", ";">>
    [] OTHER    -> <<c>>

RECURSIVE HtmlEscape(_)
HtmlEscape(s) ==
  IF s = <<>> THEN <<>> ELSE EscapeChar(Head(s)) \o HtmlEscape(Tail(s))

(***************************************************************************)
(* Files.  A file is absent ("none"), a ZIP container written by this      *)
(* program ("zip"), a document the external converter produced ("lo"),     *)
(* plain bytes written with open(path, 'w') or touch() ("raw"), or what a  *)
(* write that failed half way left behind ("partial").                     *)
(***************************************************************************)
NoFile == [kind |-> "none", format |-> "", text |-> <<>>, entries |-> <<>>]

ZipFile(entries) ==
  [kind |-> "zip", format |-> "odt", text |-> <<>>, entries |-> entries]

\* open(path, 'w').write(text); touch() on a missing path is RawFile(<<>>)
RawFile(text) ==
  [kind |-> "raw", format |-> "", text |-> text, entries |-> <<>>]

PartialFile == [kind |-> "partial", format |-> "", text |-> <<>>, entries |-> <<>>]

\* one ZipFile.writestr: the entry's name, whether it is ZIP_STORED, its
\* characters, and (for the manifest) the file entries it declares
Entry(name, stored, data, files) ==
  [name |-> name, stored |-> stored, data |-> data, files |-> files]

FileEntry(path, media) == [path |-> path, media |-> media]

MimeType == "application/vnd.oasis.opendocument.text"

(***************************************************************************)
(* The markup the writers emit.                                            *)
(***************************************************************************)
XmlDecl == "<?xml?>"

\* "<text:span>" and "<text:line-break/>" are emitted by no writer of the
\* program; containers made elsewhere hold them
StartTags ==
  {"<office:document-content>", "<office:body>", "<office:text>", "<text:p>",
   "<text:span>"}

EndTagOf ==
  ("<office:document-content>" :> "</office:document-content>") @@
  ("<office:body>" :> "</office:body>") @@
  ("<office:text>" :> "</office:text>") @@
  ("<text:p>" :> "</text:p>") @@
  ("<text:span>" :> "</text:span>")

EndTags == {EndTagOf[t] : t \in StartTags}

EmptyTags ==
  {"<office:scripts/>", "<office:font-face-decls/>",
   "<office:automatic-styles/>", "<text:p/>", "<text:line-break/>"}

\* a writer that leaves the blank segments out
ParagraphXml_DropEmpty(para) ==
  IF Strip(para) # <<>>
  THEN <<" ", " ", " ", "<text:p>">> \o para \o <<"</text:p>">>
  ELSE <<>>

\* _create_minimal_odt, the loop over paragraphs: one element per segment
ParagraphXml(para) ==
  IF Strip(para) # <<>>
  THEN <<" ", " ", " ", "<text:p>">> \o para \o <<"</text:p>">>
  ELSE <<" ", " ", " ", "<text:p/>">>

RECURSIVE TextParagraphs(_)
TextParagraphs(paragraphs) ==
  IF paragraphs = <<>> THEN <<>>
  ELSE <<ParagraphXml(Head(paragraphs))>> \o TextParagraphs(Tail(paragraphs))

\* _create_minimal_odt: escaped_content, paragraphs, text_content
MinimalTextContent(content) ==
  Join(TextParagraphs(Split(HtmlEscape(content), "\n")), <<"\n">>)

\* _create_minimal_odt: the content.xml f-string
MinimalContentXml(content) ==
  <<XmlDecl, "\n", "<office:document-content>", "\n", " ",
    "<office:scripts/>", "\n", " ",
    "<office:font-face-decls/>", "\n", " ",
    "<office:automatic-styles/>", "\n", " ",
    "<office:body>", "\n", " ", " ",
    "<office:text>", "\n">>
  \o MinimalTextContent(content) \o
  <<"\n", " ", " ", "</office:text>", "\n", " ",
    "</office:body>", "\n", "</office:document-content>">>

\* a manifest that forgets one of the parts written
MinimalManifest_NoMeta ==
  <<FileEntry("/", MimeType),
    FileEntry("content.xml", "text/xml"),
    FileEntry("styles.xml", "text/xml")>>

\* _create_minimal_odt: manifest_xml
MinimalManifest ==
  <<FileEntry("/", MimeType),
    FileEntry("content.xml", "text/xml"),
    FileEntry("styles.xml", "text/xml"),
    FileEntry("meta.xml", "text/xml")>>

\* _create_minimal_odt: the archive, entry by entry
CreateMinimalOdt(content) ==
  ZipFile(<<Entry("mimetype", TRUE, <<MimeType>>, <<>>),
            Entry("META-INF/manifest.xml", FALSE, <<>>, MinimalManifest),
            Entry("content.xml", FALSE, MinimalContentXml(content), <<>>),
            Entry("styles.xml", FALSE, <<"<office:document-styles/>">>, <<>>),
            Entry("meta.xml", FALSE, <<"<office:document-meta/>">>, <<>>)>>)

\* create_document: manifest of the inline fallback (both branches)
FallbackManifest ==
  <<FileEntry("/", MimeType), FileEntry("content.xml", "text/xml")>>

\* create_document: content_xml of the inline fallback; the text is put
\* between the paragraph tags as it is (the empty branch passes <<>>)
FallbackContentXml(content) ==
  <<XmlDecl, "\n", "<office:document-content>", "\n", " ",
    "<office:body>", "\n", " ", " ",
    "<office:text>", "\n", " ", " ", " ",
    "<text:p>">> \o content \o <<"</text:p>", "\n", " ", " ",
    "</office:text>", "\n", " ",
    "</office:body>", "\n", "</office:document-content>">>

\* create_document: zipfile.ZipFile(path_obj, 'w', ZIP_DEFLATED) and three
\* writestr calls, none of which names a compress_type
CreateFallbackOdt(content) ==
  ZipFile(<<Entry("mimetype", FALSE, <<MimeType>>, <<>>),
            Entry("META-INF/manifest.xml", FALSE, <<>>, FallbackManifest),
            Entry("content.xml", FALSE, FallbackContentXml(content), <<>>)>>)

(***************************************************************************)
(* The container reader: xml.etree.ElementTree.fromstring on the tokens of *)
(* content.xml, then the walk of _extract_text_from_odt.                   *)
(*                                                                         *)
(* Elements are numbered in the order of their start tags, which is the    *)
(* order root.iter() visits them.  text[e] is the character data between   *)
(* e's start tag and its first child (or its end), tail[e] the character   *)
(* data between e's end and the next tag, as ElementTree stores them.      *)
(*                                                                         *)
(* A "<" that is a character of the text opens no well-formed tag: no      *)
(* text over Alphabet holds the ">" or "/" that would close one before     *)
(* the template's own "</text:p>" arrives.  A "&" must begin one of the    *)
(* references the parser knows.                                            *)
(***************************************************************************)
EntityChar ==
  (<<"a", "m", "p">> :> "&") @@
  (<<"l", "t">> :> "<") @@
  (<<"g", "t">> :> ">") @@
  (<<"q", "u", "o", "t">> :> "\"") @@
  (<<"a", "p", "o", "s">> :> "'") @@
  (<<"#", "x", "2", "7">> :> "'")

ParseStart ==
  [ok |-> TRUE, n |-> 0, stack |-> <<>>, open |-> <<>>, tag |-> <<>>,
   text |-> <<>>, tail |-> <<>>, where |-> "prolog", at |-> 0]

ParseError(st) == [st EXCEPT !.ok = FALSE]

\* character data c arrives
ParseChar(st, c) ==
  CASE st.where \in {"prolog", "epilog"} ->
         IF c \in Whitespace THEN st ELSE ParseError(st)
    [] st.where = "text" ->
         [st EXCEPT !.text[st.at] = Append(@, c)]
    [] OTHER ->
         [st EXCEPT !.tail[st.at] = Append(@, c)]

\* a start tag (empty = TRUE for <x/>) arrives
ParseOpen(st, tag, empty) ==
  IF st.where = "epilog" THEN ParseError(st)
  ELSE LET e == st.n + 1
           st1 == [st EXCEPT !.n = e,
                             !.tag = Append(@, tag),
                             !.text = Append(@, <<>>),
                             !.tail = Append(@, <<>>)]
       IN IF empty
          THEN [st1 EXCEPT !.where = IF st.stack = <<>> THEN "epilog" ELSE "tail",
                           !.at = e]
          ELSE [st1 EXCEPT !.stack = Append(@, e),
                           !.open = Append(@, tag),
                           !.where = "text",
                           !.at = e]

\* an end tag arrives
ParseClose(st, tag) ==
  IF st.stack = <<>> \/ EndTagOf[st.open[Len(st.open)]] # tag
  THEN ParseError(st)
  ELSE LET k == Len(st.stack)
       IN [st EXCEPT !.stack = SubSeq(@, 1, k - 1),
                     !.open = SubSeq(@, 1, k - 1),
                     !.where = IF k = 1 THEN "epilog" ELSE "tail",
                     !.at = st.stack[k]]

RECURSIVE ParseFrom(_, _, _)
ParseFrom(toks, i, st) ==
  IF ~st.ok THEN st
  ELSE IF i > Len(toks)
  THEN IF st.n > 0 /\ st.stack = <<>> THEN st ELSE ParseError(st)
  ELSE LET t == toks[i] IN
    CASE t = XmlDecl ->
           IF i = 1 THEN ParseFrom(toks, i + 1, st) ELSE ParseError(st)
      [] t \in StartTags -> ParseFrom(toks, i + 1, ParseOpen(st, t, FALSE))
      [] t \in EmptyTags -> ParseFrom(toks, i + 1, ParseOpen(st, t, TRUE))
      [] t \in EndTags -> ParseFrom(toks, i + 1, ParseClose(st, t))
      [] t = "<" -> ParseError(st)
      [] t = "&" ->
           IF \E j \in (i + 1)..Len(toks) : toks[j] = ";"
           THEN LET j == CHOOSE k \in (i + 1)..Len(toks) :
                           toks[k] = ";" /\ \A m \in (i + 1)..(k - 1) : toks[m] # ";"
                    name == SubSeq(toks, i + 1, j - 1)
                IN IF name \in DOMAIN EntityChar
                   THEN ParseFrom(toks, j + 1, ParseChar(st, EntityChar[name]))
                   ELSE ParseError(st)
           ELSE ParseError(st)
      [] OTHER -> ParseFrom(toks, i + 1, ParseChar(st, t))

\* ET.fromstring(content_xml)
FromString(toks) == ParseFrom(toks, 1, ParseStart)

\* for elem in root.iter(): elem.text if it is not empty, then elem.tail
RECURSIVE TextParts(_, _)
TextParts(tree, e) ==
  IF e > tree.n THEN <<>>
  ELSE (IF tree.text[e] # <<>> THEN <<tree.text[e]>> ELSE <<>>)
       \o (IF tree.tail[e] # <<>> THEN <<tree.tail[e]>> ELSE <<>>)
       \o TextParts(tree, e + 1)

\* ' '.join(text_parts).strip()
ExtractJoin(parts) == Strip(Join(parts, <<" ">>))

HasEntry(file, name) == \E i \in 1..Len(file.entries) : file.entries[i].name = name

GetEntry(file, name) ==
  file.entries[CHOOSE i \in 1..Len(file.entries) : file.entries[i].name = name]

\* _extract_text_from_odt: every failure (not an archive, no content.xml,
\* markup that does not parse) is raised as RuntimeError
ExtractTextFromOdt(file) ==
  IF file.kind \notin {"zip", "lo"} \/ ~HasEntry(file, "content.xml")
  THEN [ok |-> FALSE, text |-> <<>>]
  ELSE LET tree == FromString(GetEntry(file, "content.xml").data)
       IN IF tree.ok
          THEN [ok |-> TRUE, text |-> ExtractJoin(TextParts(tree, 1))]
          ELSE [ok |-> FALSE, text |-> <<>>]

(***************************************************************************)
(* The external converter.  Each of the three executable names the source  *)
(* tries is missing, runs and exits 0 ("ok"), runs and exits non-zero      *)
(* ("fail"), or does not finish within the timeout.                        *)
(***************************************************************************)
Executables == <<"libreoffice", "loffice", "soffice">>

ExeStatus == {"missing", "ok", "fail", "timeout"}

ExeConfigs == [1..Len(Executables) -> ExeStatus]

\* a subprocess.CompletedProcess comes back
Returned(rc) == [raised |-> "", returncode |-> rc]

\* the call raises
Raised(exc) == [raised |-> exc, returncode |-> 0]

\* _run_libreoffice_command: the loop over the executable names, from name i
RECURSIVE RunFrom(_, _)
RunFrom(exes, i) ==
  IF i > Len(Executables) THEN Raised("FileNotFoundError")
  ELSE CASE exes[i] = "missing" -> RunFrom(exes, i + 1)
         [] exes[i] = "timeout" -> Raised("TimeoutError")
         [] exes[i] = "ok" -> Returned(0)
         [] OTHER -> IF Executables[i] = "soffice"
                     THEN Returned(1)
                     ELSE RunFrom(exes, i + 1)

RunLibreOfficeCommand(exes) == RunFrom(exes, 1)

\* every way a call of _run_libreoffice_command can end, as its callers see
\* it: the exception it raises, or "" when a CompletedProcess comes back
\* (none of them reads the return code)
ConverterOutcomes == {RunLibreOfficeCommand(exes).raised : exes \in ExeConfigs}

(***************************************************************************)
(* What the converter is taken to do, it being no code of this repository: *)
(* converting a text file to a document format keeps the text, one         *)
(* paragraph per line, markup characters escaped; converting a document to *)
(* txt gives the text back.  It loads nothing it cannot parse.             *)
(***************************************************************************)
LoParagraphXml(line) ==
  IF line = <<>> THEN <<"<text:p/>">>
  ELSE <<"<text:p>">> \o HtmlEscape(line) \o <<"</text:p>">>

RECURSIVE LoParagraphs(_)
LoParagraphs(lines) ==
  IF lines = <<>> THEN <<>>
  ELSE LoParagraphXml(Head(lines)) \o LoParagraphs(Tail(lines))

\* what `--convert-to <format>` leaves in --outdir for a text file
ConvertedFile(format, text) ==
  [kind |-> "lo", format |-> format, text |-> text,
   entries |->
     IF format = "odt"
     THEN <<Entry("mimetype", TRUE, <<MimeType>>, <<>>),
            Entry("content.xml", FALSE,
                  <<XmlDecl, "\n", "<office:document-content>", "<office:body>",
                    "<office:text>">> \o LoParagraphs(Split(text, "\n")) \o
                  <<"</office:text>", "</office:body>",
                    "</office:document-content>">>, <<>>)>>
     ELSE <<>>]

\* the text of the <text:p> elements of a parsed content.xml, in order
RECURSIVE ParagraphTexts(_, _)
ParagraphTexts(tree, e) ==
  IF e > tree.n THEN <<>>
  ELSE (IF tree.tag[e] \in {"<text:p>", "<text:p/>"} THEN <<tree.text[e]>> ELSE <<>>)
       \o ParagraphTexts(tree, e + 1)

\* whether the converter can load the file at all
Loadable(file) ==
  CASE file.kind = "lo" -> TRUE
    [] file.kind = "raw" -> file.text # <<>>
    [] file.kind = "zip" -> FromString(GetEntry(file, "content.xml").data).ok
    [] OTHER -> FALSE

\* the text `--convert-to txt` writes for a file it can load
ConvertedText(file) ==
  CASE file.kind = "zip" ->
         Join(ParagraphTexts(FromString(GetEntry(file, "content.xml").data), 1),
              <<"\n">>)
    [] OTHER -> file.text

\* path_obj.read_text(encoding='utf-8', errors='ignore'): the bytes of an
\* archive read as text begin with the ZIP signature
ReadTextIgnoringErrors(file) ==
  CASE file.kind = "raw" -> file.text
    [] file.kind = "partial" -> <<>>
    [] OTHER -> <<"P", "K">>

(***************************************************************************)
(* The state: the files of the working directory, and the last call made   *)
(* with what it was given and what came of it.  A field of `last` the call *)
(* never came to use keeps its value of NoCall; of an insert that raised,  *)
(* `last` keeps the position, the converter's outcome and the fault.       *)
(***************************************************************************)
VARIABLES fs, last

vars == <<fs, last>>

Paths == {"doc.odt", "doc.docx", "doc.ods"}

\* Path(path).suffix.lower()
Suffix ==
  ("doc.odt" :> ".odt") @@ ("doc.docx" :> ".docx") @@ ("doc.ods" :> ".ods")
  @@ ("doc" :> "")

\* the paths create_document is given: one of them has no suffix
GivenPaths == Paths \cup {"doc"}

\* a format_map that knows one type more
FormatMap_WithChart ==
  ("writer" :> ".odt") @@ ("calc" :> ".ods") @@ ("chart" :> ".ods")

\* create_document: format_map, for the supported document types drawn
FormatMap == ("writer" :> ".odt") @@ ("calc" :> ".ods")

\* create_document: path = str(path_obj) + format_map[doc_type] when the
\* path has no suffix
EffectivePath(path, doc_type) ==
  IF Suffix[path] = "" THEN path \o FormatMap[doc_type] ELSE path

\* _get_document_info: the descriptor's exists field
GetDocumentInfo(file) == [exists |-> file.kind # "none"]

\* a touch() that makes no file
Touch_Nothing(file) == file

\* path_obj.touch()
Touch(file) == IF file.kind = "none" THEN RawFile(<<>>) ELSE file

\* insert_text_at_position: backup_path = str(path_obj) + '.backup'
BackupPath(path) == path \o ".backup"

AllPaths == Paths \cup {BackupPath(p) : p \in Paths}

\* "chart" is a type format_map does not know
DocTypes == {"writer", "calc", "chart"}

Positions == {"start", "end", "replace", "middle"}

Exists(path) == fs[path].kind # "none"

\* A call touches the file at its path and at BackupPath(path), no other:
\* calls on different documents do not meet, and a behaviour follows one
\* document, created at any of the paths.
Tracked(path) == \A p \in Paths \ {path} : ~Exists(p)

\* the server is between calls: the last response has gone out
Idle == last.op = ""

\* op, path, doc_type, text, position: the call; conv: the exception the
\* converter's run raised ("" when it returned), ran: whether it was run;
\* produced: whether the run left its output file; fault: where the file
\* system failed; raised: the exception the call raised ("" when it
\* returned); existing, new_content: the locals of insert_text_at_position;
\* wrote: which writer made the file; target, target_format: the other
\* arguments of convert_document; returncode: the converter's exit status;
\* success, error_message: the fields of the ConversionResult returned;
\* given: the path create_document was given, `path` being the one it
\* returns; exists: the field of the DocumentInfo it returns
NoCall ==
  [op |-> "", path |-> "", doc_type |-> "", text |-> <<>>, position |-> "",
   ran |-> FALSE, conv |-> "", produced |-> FALSE, fault |-> "", raised |-> "",
   existing |-> <<>>, new_content |-> <<>>, wrote |-> "",
   target |-> "", target_format |-> "", returncode |-> 0,
   success |-> FALSE, error_message |-> "", given |-> "", exists |-> FALSE]

Init ==
  /\ fs = [p \in AllPaths |-> NoFile]
  /\ last = NoCall

(***************************************************************************)
(* create_document(path, doc_type, content).  The converter's run ends as  *)
(* result; produced: a run that returned left its output file; fault: the  *)
(* program's own write fails.                                              *)
(***************************************************************************)
CreateDocument(path, doc_type, content) ==
  LET path_obj == EffectivePath(path, doc_type)
      pre == fs[path_obj]
      call == [NoCall EXCEPT !.op = "create", !.path = path_obj,
                             !.given = path,
                             !.doc_type = doc_type, !.text = content]
      Done(file, rec) ==
        /\ fs' = [fs EXCEPT ![path_obj] = file]
        /\ last' = IF rec.raised = ""
                   THEN [rec EXCEPT !.exists = GetDocumentInfo(file).exists]
                   ELSE rec
  IN IF doc_type \notin DOMAIN FormatMap
     THEN \* raise ValueError, ahead of the try block
          /\ Idle
          /\ fs' = fs
          /\ last' = [NoCall EXCEPT !.op = "create", !.path = path,
                                    !.given = path, !.doc_type = doc_type,
                                    !.text = content, !.raised = "ValueError"]
     ELSE
     /\ Idle
     /\ Tracked(path_obj)
     /\ \E result \in ConverterOutcomes :
        LET ran == [call EXCEPT !.ran = TRUE, !.conv = result]
        IN IF doc_type = "writer" /\ content # <<>>
           THEN \* the text file is handed to the converter
                IF result # ""
                THEN Done(pre, [ran EXCEPT !.raised = "RuntimeError"])
                ELSE \E produced \in BOOLEAN :
                     IF produced
                     THEN Done(ConvertedFile("odt", content),
                               [ran EXCEPT !.produced = TRUE, !.wrote = "converter"])
                     ELSE \E fault \in BOOLEAN :
                          IF fault
                          THEN Done(PartialFile,
                                    [ran EXCEPT !.fault = "write",
                                                !.raised = "RuntimeError"])
                          ELSE Done(CreateFallbackOdt(content),
                                    [ran EXCEPT !.wrote = "fallback_odt"])
           ELSE \* other types, and empty documents
                IF pre.kind # "none"
                THEN \* a file is there: touch() at most
                     Done(pre, ran)
                ELSE \E fault \in BOOLEAN :
                     LET failed == [ran EXCEPT !.fault = "write"]
                     IN IF result # "" \/ doc_type # "writer"
                        THEN \* path_obj.touch(), in the handler or in the else
                             IF fault
                             THEN Done(pre, [failed EXCEPT !.raised = "RuntimeError"])
                             ELSE Done(Touch(pre), [ran EXCEPT !.wrote = "touch"])
                        ELSE IF fault
                             THEN \* the archive write fails; the handler's
                                  \* touch() finds the file there
                                  Done(PartialFile, failed)
                             ELSE Done(CreateFallbackOdt(<<>>),
                                       [ran EXCEPT !.wrote = "fallback_odt"])

(***************************************************************************)
(* read_document_text(path)                                                *)
(***************************************************************************)
ReadOk(content) == [raised |-> "", content |-> content]

ReadRaised(exc) == [raised |-> exc, content |-> <<>>]

\* the value (or exception) of read_document_text on file, stored at path;
\* found: the converter's run left a text file the search locates
ReadDocumentTextOf(file, path, result, found) ==
  IF file.kind = "none" THEN ReadRaised("FileNotFoundError")
  ELSE IF result # "" THEN ReadRaised("RuntimeError")
  ELSE IF found /\ Loadable(file) THEN ReadOk(ConvertedText(file))
  ELSE IF Suffix[path] = ".odt"
  THEN LET r == ExtractTextFromOdt(file)
       IN IF r.ok THEN ReadOk(r.text) ELSE ReadRaised("RuntimeError")
  ELSE ReadOk(ReadTextIgnoringErrors(file))

ReadDocumentText(path) ==
  LET call == [NoCall EXCEPT !.op = "read", !.path = path]
  IN /\ Idle
     /\ fs' = fs
     /\ IF ~Exists(path)
        THEN last' = [call EXCEPT !.raised = "FileNotFoundError"]
        ELSE \E result \in ConverterOutcomes, found \in BOOLEAN :
             LET r == ReadDocumentTextOf(fs[path], path, result, found)
             IN last' = [call EXCEPT !.ran = TRUE, !.conv = result,
                                     !.produced = /\ result = "" /\ found
                                                  /\ Loadable(fs[path]),
                                     !.raised = r.raised,
                                     !.existing = r.content]

(***************************************************************************)
(* insert_text_at_position(path, text, position): text and position are   *)
(* drawn where the code first reads them, after the body has been read     *)
(***************************************************************************)
\* the text-recombination policy with the separator left out at "end"
NewContent_EndNoSeparator(position, text, existing) ==
  CASE position = "start" -> text \o <<"\n">> \o existing
    [] position = "end" ->
         IF existing = <<>> THEN text ELSE existing \o <<"\n">> \o text
    [] OTHER -> text

\* the policy with "start" appending instead of prepending
NewContent_StartAppends(position, text, existing) ==
  CASE position = "start" -> existing \o <<"\n">> \o text
    [] position = "end" -> existing \o <<"\n">> \o text
    [] OTHER -> text

\* the policy with "replace" keeping a body that is there
NewContent_ReplaceKeeps(position, text, existing) ==
  CASE position = "start" -> text \o <<"\n">> \o existing
    [] position = "end" -> existing \o <<"\n">> \o text
    [] OTHER -> IF text = <<>> THEN existing ELSE text

\* new_content, for the three positions the if/elif chain accepts
NewContent(position, text, existing) ==
  CASE position = "start" -> text \o <<"\n">> \o existing
    [] position = "end" -> existing \o <<"\n">> \o text
    [] OTHER -> text

\* a policy that takes any position
ValidPositions_Any == Positions

ValidPositions == {"start", "end", "replace"}

\* shutil.copy2(path_obj, backup_path): whatever was at backup_path is
\* overwritten
BackedUp(files, path) == [files EXCEPT ![BackupPath(path)] = files[path]]

\* a cleanup that leaves the backup where it is
Unlink_Nothing(files, path) == files

\* Path(path).unlink(missing_ok=True)
Unlink(files, path) == [files EXCEPT ![path] = NoFile]

Rewritten(file, wrote) == [file |-> file, wrote |-> wrote, raised |-> ""]

RewriteFailed == [file |-> PartialFile, wrote |-> "", raised |-> "IOError"]

\* _recreate_writer_document, from the unlink of the original on: the file
\* that ends up at path, or the partial file and the exception
RecreateWriterDocument(path, content, result, produced, fault) ==
  LET original_ext == Suffix[path]
      target_format ==
        CASE original_ext = ".odt" -> "odt"
          [] original_ext = ".docx" -> "docx"
          [] original_ext = ".doc" -> "doc"
          [] OTHER -> "odt"
  IN IF result = "" /\ produced
     THEN Rewritten(ConvertedFile(target_format, content), "converter")
     ELSE IF original_ext = ".odt" \/ target_format = "odt"
     THEN IF fault THEN RewriteFailed
          ELSE Rewritten(CreateMinimalOdt(content), "minimal_odt")
     ELSE IF fault THEN RewriteFailed
          ELSE Rewritten(RawFile(content), "raw")

\* _recreate_document_with_content
RecreateDocumentWithContent(content, fault) ==
  IF fault THEN RewriteFailed ELSE Rewritten(RawFile(content), "raw")

WriterSuffixes == {".odt", ".docx", ".doc"}

\* where the file system fails during one insert, if it does: at the copy
\* to the backup, at the program's own write of the new file, or at that
\* write and at the copy back as well
Faults == {"", "backup", "rewrite", "rewrite_restore"}

\* the part of insert_text_at_position from the backup on
InsertRewrite(path, asked, new_content, result) ==
  LET pre == fs[path]
      backup_path == BackupPath(path)
      usesConverter == Suffix[path] \in WriterSuffixes /\ result = ""
  IN \E produced \in (IF usesConverter THEN BOOLEAN ELSE {FALSE}) :
     \E fault \in (IF produced THEN {"", "backup"} ELSE Faults) :
       LET tried == [asked EXCEPT !.new_content = new_content,
                                  !.produced = produced]
           failed == [NoCall EXCEPT !.op = "insert", !.path = path,
                                    !.ran = TRUE, !.conv = result,
                                    !.position = asked.position,
                                    !.fault = fault, !.raised = "RuntimeError"]
           failing == fault \in {"rewrite", "rewrite_restore"}
           rewrite ==
             IF Suffix[path] \in WriterSuffixes
             THEN RecreateWriterDocument(path, new_content, result, produced, failing)
             ELSE RecreateDocumentWithContent(new_content, failing)
       IN IF fault = "backup"
          THEN \* shutil.copy2 cannot create the backup
               /\ fs' = fs
               /\ last' = failed
          ELSE IF rewrite.raised = ""
          THEN /\ fs' = Unlink([BackedUp(fs, path) EXCEPT ![path] = rewrite.file],
                               backup_path)
               /\ last' = [tried EXCEPT !.wrote = rewrite.wrote]
          ELSE \* except: copy the backup back; finally: unlink the backup
               /\ fs' = Unlink([BackedUp(fs, path) EXCEPT
                                  ![path] = IF fault = "rewrite_restore"
                                            THEN PartialFile
                                            ELSE BackedUp(fs, path)[backup_path]],
                               backup_path)
               /\ last' = failed

InsertTextAtPosition(path) ==
  LET call == [NoCall EXCEPT !.op = "insert", !.path = path]
  IN /\ Idle
     /\ IF ~Exists(path)
        THEN /\ fs' = fs
             /\ last' = [call EXCEPT !.raised = "FileNotFoundError"]
        ELSE \E result \in ConverterOutcomes, found \in BOOLEAN :
          LET read == ReadDocumentTextOf(fs[path], path, result, found)
              ran == [call EXCEPT !.ran = TRUE, !.conv = result]
          IN IF read.raised # ""
             THEN /\ fs' = fs
                  /\ last' = [ran EXCEPT !.raised = "RuntimeError"]
             ELSE \E text \in Texts, position \in Positions :
                  LET asked == [ran EXCEPT !.text = text, !.position = position,
                                           !.existing = read.content]
                  IN IF position \notin ValidPositions
                     THEN /\ fs' = fs
                          /\ last' = [ran EXCEPT !.position = position,
                                                 !.raised = "RuntimeError"]
                     ELSE LET new_content == NewContent(position, text, read.content)
                          IN /\ Len(new_content) <= MaxContent
                             /\ InsertRewrite(path, asked, new_content, result)

\* mcp.run(): the result (or the error) of the call goes back to the client,
\* and the server takes the next call
Respond ==
  /\ ~Idle
  /\ last' = NoCall
  /\ fs' = fs

Next ==
  \/ \E path \in GivenPaths, doc_type \in DocTypes, content \in Texts :
       CreateDocument(path, doc_type, content)
  \/ \E path \in Paths : ReadDocumentText(path)
  \/ \E path \in Paths : InsertTextAtPosition(path)
  \/ Respond

Spec == Init /\ [][Next]_vars

(***************************************************************************)
(* The text-recombination policy (spec 4.3), on the calls that returned.   *)
(***************************************************************************)
InsertReturned(position) ==
  last.op = "insert" /\ last.raised = "" /\ last.position = position

\* C1: position "end": for every existing text e and inserted text t, empty
\* ones included, the new content insert_text_at_position computes is e,
\* one line boundary, t; the boundary is there when a side is empty.
C1_EndIsExistingNewlineText ==
  InsertReturned("end") =>
    last.new_content = last.existing \o <<"\n">> \o last.text

\* an insert at "end" into an empty body returned, its boundary kept
C1_Witness ==
  /\ InsertReturned("end")
  /\ last.existing = <<>>
  /\ last.text = <<"a">>
  /\ last.new_content = <<"\n", "a">>

\* C2: position "start": for every existing text e and inserted text t,
\* empty ones included, the new content is t, one line boundary, e.
C2_StartIsTextNewlineExisting ==
  InsertReturned("start") =>
    last.new_content = last.text \o <<"\n">> \o last.existing

\* an insert of the empty text at "start" of a body that is not empty
C2_Witness ==
  /\ InsertReturned("start")
  /\ last.text = <<>>
  /\ last.existing # <<>>
  /\ last.new_content = <<"\n">> \o last.existing

\* C3: position "replace": the new content is the inserted text, whatever
\* the existing text was.
C3_ReplaceIsText ==
  InsertReturned("replace") => last.new_content = last.text

\* a replace by the empty text of a body that is not empty
C3_Witness ==
  /\ InsertReturned("replace")
  /\ last.existing # <<>>
  /\ last.text = <<>>
  /\ last.new_content = <<>>

(***************************************************************************)
(* The containers the program writes.                                      *)
(***************************************************************************)
\* the container the last call synthesized, and the text it was given
Synthesized == last.raised = "" /\ last.wrote \in {"fallback_odt", "minimal_odt"}

WrittenText == IF last.op = "create" THEN last.text ELSE last.new_content

RECURSIVE NonWhitespace(_)
NonWhitespace(s) ==
  IF s = <<>> THEN <<>>
  ELSE IF Head(s) \in Whitespace THEN NonWhitespace(Tail(s))
  ELSE <<Head(s)>> \o NonWhitespace(Tail(s))

\* C4: for every body b, reading back with _extract_text_from_odt the file
\* _create_minimal_odt wrote for b yields b, paragraph boundaries and
\* characters alike.
C4_RoundTrip ==
  (last.raised = "" /\ last.wrote = "minimal_odt") =>
    LET r == ExtractTextFromOdt(fs[last.path])
    IN r.ok /\ r.text = last.new_content

\* C5: on every path that synthesizes a container, markup-special
\* characters are escaped: content.xml parses, and what is read back has
\* the characters of the text given (whitespace apart, which is C4's).
C5_EscapedAndReadBack ==
  Synthesized =>
    LET r == ExtractTextFromOdt(fs[last.path])
    IN r.ok /\ NonWhitespace(r.text) = NonWhitespace(WrittenText)

\* C6: in every container the program writes, the first entry is
\* "mimetype" and it is stored without compression.
C6_MimetypeFirstAndStored ==
  \A p \in AllPaths :
    fs[p].kind = "zip" =>
      /\ fs[p].entries # <<>>
      /\ fs[p].entries[1].name = "mimetype"
      /\ fs[p].entries[1].stored

\* the file entries a container's manifest declares, the root apart
ManifestPaths(file) ==
  {f.path : f \in
     {GetEntry(file, "META-INF/manifest.xml").files[i] :
        i \in 1..Len(GetEntry(file, "META-INF/manifest.xml").files)}} \ {"/"}

\* the media type the manifest's root entry declares
ManifestRootMedia(file) ==
  LET files == GetEntry(file, "META-INF/manifest.xml").files
  IN {files[i].media : i \in {k \in 1..Len(files) : files[k].path = "/"}}

\* the document parts of a container: its entries, the mimetype entry and
\* the manifest itself apart
PartsWritten(file) ==
  {file.entries[i].name : i \in 1..Len(file.entries)}
    \ {"mimetype", "META-INF/manifest.xml"}

\* C7: in every container the program writes, the manifest declares
\* exactly the document parts the archive holds, and its root entry
\* declares the media type the mimetype entry holds.
C7_ManifestMatchesParts ==
  \A p \in AllPaths :
    fs[p].kind = "zip" =>
      /\ HasEntry(fs[p], "META-INF/manifest.xml")
      /\ HasEntry(fs[p], "mimetype")
      /\ ManifestPaths(fs[p]) = PartsWritten(fs[p])
      /\ ManifestRootMedia(fs[p]) = {GetEntry(fs[p], "mimetype").data[1]}

\* _create_minimal_odt has written its five entries
C7_Witness ==
  /\ last.op = "insert" /\ last.wrote = "minimal_odt"
  /\ fs[last.path].kind = "zip"
  /\ PartsWritten(fs[last.path]) = {"content.xml", "styles.xml", "meta.xml"}

(***************************************************************************)
(* Failure and fallback.                                                   *)
(***************************************************************************)
\* C8: whenever insert_text_at_position raises, the file at path is what
\* it was before the call.
C8_FailedInsertLeavesFile ==
  [][(last'.op = "insert" /\ last'.raised # "")
       => fs'[last'.path] = fs[last'.path]]_vars

\* the file is a document of the format its suffix names
WellFormedFor(file, suffix) ==
  CASE file.kind = "lo" -> "." \o file.format = suffix
    [] file.kind = "zip" ->
         suffix = ".odt" /\ FromString(GetEntry(file, "content.xml").data).ok
    [] OTHER -> FALSE

\* C9: after insert_text_at_position returns, the file at path is a
\* well-formed document of the format its extension names, never raw text.
C9_InsertLeavesDocument ==
  (last.op = "insert" /\ last.raised = "") =>
    WellFormedFor(fs[last.path], Suffix[last.path])

\* C10: when the converter is absent, fails or leaves no output file,
\* create_document of a writer document with content still returns, and
\* the document it made holds the content.
C10_CreateFallsBack ==
  (/\ last.op = "create" /\ last.doc_type = "writer" /\ last.text # <<>>
   /\ last.fault = ""
   /\ (last.conv # "" \/ ~last.produced)) =>
    /\ last.raised = ""
    /\ LET r == ExtractTextFromOdt(fs[last.path])
       IN r.ok /\ NonWhitespace(r.text) = NonWhitespace(last.text)

(***************************************************************************)
(* Reading.                                                                *)
(***************************************************************************)
\* C11: read_document_text returns the converter's text output whenever
\* there is one; whenever there is none (the converter is absent, fails or
\* leaves no text file) and the file is an .odt container the reader can
\* read, it returns the container reader's text and does not raise.
C11_ReaderFallsBack ==
  (last.op = "read" /\ last.ran /\ Suffix[last.path] = ".odt"
     /\ ExtractTextFromOdt(fs[last.path]).ok) =>
    /\ last.raised = ""
    /\ last.existing = IF last.produced
                       THEN ConvertedText(fs[last.path])
                       ELSE ExtractTextFromOdt(fs[last.path]).text

(***************************************************************************)
(* The container reader on its own: _extract_text_from_odt applied to a    *)
(* file that may come from anywhere: no file, a file that is no archive,   *)
(* an archive without content.xml, an archive whose content.xml is cut     *)
(* short, and archives whose content.xml nests elements.                   *)
(***************************************************************************)
ReaderChars == {"a", "b", " "}

Runs == UNION {[1..k -> ReaderChars] : k \in 0..MaxRun}

\* a paragraph; with a span in it; with a line break in the span
FlatMarkup(t1) == <<"<text:p>">> \o t1 \o <<"</text:p>">>

SpanMarkup(t1, t2, t4) ==
  <<"<text:p>">> \o t1 \o <<"<text:span>">> \o t2 \o <<"</text:span>">>
  \o t4 \o <<"</text:p>">>

NestedMarkup(t1, t2, t3, t4) ==
  <<"<text:p>">> \o t1 \o <<"<text:span>">> \o t2 \o <<"<text:line-break/>">>
  \o t3 \o <<"</text:span>">> \o t4 \o <<"</text:p>">>

Shapes == {"flat", "span", "nested"}

Markup(shape, t1, t2, t3, t4) ==
  CASE shape = "flat" -> FlatMarkup(t1)
    [] shape = "span" -> SpanMarkup(t1, t2, t4)
    [] OTHER -> NestedMarkup(t1, t2, t3, t4)

\* a content.xml cut short: its last tag is missing
Truncated(toks) == SubSeq(toks, 1, Len(toks) - 1)

ContainerOf(toks) ==
  ZipFile(<<Entry("mimetype", TRUE, <<MimeType>>, <<>>),
            Entry("content.xml", FALSE, toks, <<>>)>>)

FileKinds == {"missing", "no archive", "no content", "truncated", "well-formed"}

\* the file at file_path
ReaderFile(kind, toks) ==
  CASE kind = "missing" -> NoFile
    [] kind = "no archive" -> RawFile(<<"a">>)
    [] kind = "no content" ->
         ZipFile(<<Entry("mimetype", TRUE, <<MimeType>>, <<>>)>>)
    [] kind = "truncated" -> ContainerOf(Truncated(toks))
    [] OTHER -> ContainerOf(toks)

\* the exception raised inside _extract_text_from_odt's try block, "" when
\* none is: by zipfile.ZipFile(file_path, 'r'), by zf.read('content.xml'),
\* by ET.fromstring(content_xml)
ExtractCause(file) ==
  CASE file.kind = "none" -> "FileNotFoundError"
    [] file.kind \notin {"zip", "lo"} -> "BadZipFile"
    [] ~HasEntry(file, "content.xml") -> "KeyError"
    [] ~FromString(GetEntry(file, "content.xml").data).ok -> "ParseError"
    [] OTHER -> ""

\* _extract_text_from_odt(path): `except Exception as e: raise RuntimeError`
ExtractText(path) ==
  LET r == ExtractTextFromOdt(fs[path])
  IN /\ Idle
     /\ fs' = fs
     /\ last' = [NoCall EXCEPT !.op = "extract", !.path = path,
                               !.raised = IF ExtractCause(fs[path]) # ""
                                          THEN "RuntimeError" ELSE "",
                               !.existing = r.text]

InitReader ==
  /\ \E kind \in FileKinds, shape \in Shapes,
        t1 \in Runs, t2 \in Runs, t3 \in Runs, t4 \in Runs :
       fs = [p \in AllPaths |->
               IF p = "doc.odt"
               THEN ReaderFile(kind, Markup(shape, t1, t2, t3, t4))
               ELSE NoFile]
  /\ last = NoCall

NextReader ==
  \/ ExtractText("doc.odt")
  \/ Respond

SpecReader == InitReader /\ [][NextReader]_vars

\* the runs of character data of a content.xml in the order they stand in
\* the markup; run: the characters since the last tag
RECURSIVE RunsInOrder(_, _, _)
RunsInOrder(toks, i, run) ==
  IF i > Len(toks) THEN (IF run # <<>> THEN <<run>> ELSE <<>>)
  ELSE IF toks[i] \in StartTags \cup EndTags \cup EmptyTags
  THEN (IF run # <<>> THEN <<run>> ELSE <<>>) \o RunsInOrder(toks, i + 1, <<>>)
  ELSE RunsInOrder(toks, i + 1, Append(run, toks[i]))

\* C12: for every well-formed content.xml, nested elements included, the
\* container reader returns the text and tail of every element in the
\* order the characters stand in the markup, joined by single blanks and
\* stripped.
C12_DocumentOrder ==
  (last.op = "extract" /\ last.raised = "") =>
    last.existing =
      Strip(Join(RunsInOrder(GetEntry(fs[last.path], "content.xml").data,
                             1, <<>>), <<" ">>))

\* C13: the container reader raises NotFoundError when the archive or its
\* content.xml is missing and ParseError when content.xml is malformed,
\* and a generic exception for neither.
C13_TypedErrors ==
  last.op = "extract" =>
    LET cause == ExtractCause(fs[last.path])
    IN /\ cause \in {"FileNotFoundError", "KeyError"}
            => last.raised \in {"NotFoundError", "FileNotFoundError", "KeyError"}
       /\ cause = "ParseError" => last.raised = "ParseError"

(***************************************************************************)
(* convert_document(source_path, target_path, target_format), on a         *)
(* directory that may hold files from earlier conversions.                 *)
(***************************************************************************)
TargetFormats == {"odt", "docx", "ods"}

\* expected_output = target_obj.parent / (source_obj.stem + f'.{target_format}')
ExpectedOutput(source_path, target_format) == "doc." \o target_format

\* every way a call of _run_libreoffice_command can end, exit status kept
ConverterResults == {RunLibreOfficeCommand(exes) : exes \in ExeConfigs}

\* target_obj.parent.mkdir(parents=True, exist_ok=True), before the try:
\* the directory is there or is made (""), or the call raises
MkdirOutcomes == {"", "OSError"}

\* error_message is None (""), names the missing source, carries the
\* converter's captured stderr, or is str(e) of the exception caught
ConvertDocument(source_path, target_path, target_format) ==
  LET call == [NoCall EXCEPT !.op = "convert", !.path = source_path,
                             !.target = target_path,
                             !.target_format = target_format]
      expected_output == ExpectedOutput(source_path, target_format)
  IN /\ Idle
     /\ expected_output # source_path
     /\ IF ~Exists(source_path)
        THEN /\ fs' = fs
             /\ last' = [call EXCEPT !.error_message = "source not found"]
        ELSE \E mkdir \in MkdirOutcomes, result \in ConverterResults :
             IF mkdir # ""
             THEN /\ fs' = fs
                  /\ last' = [call EXCEPT !.fault = "mkdir", !.raised = mkdir]
             ELSE
             IF result.raised # ""
             THEN /\ fs' = fs
                  /\ last' = [call EXCEPT !.ran = TRUE, !.conv = result.raised,
                                          !.error_message = "exception"]
             ELSE \E produced \in BOOLEAN :
                  LET converted ==
                        IF produced
                        THEN [fs EXCEPT ![expected_output] =
                                ConvertedFile(target_format,
                                              ConvertedText(fs[source_path]))]
                        ELSE fs
                      moved ==
                        IF converted[expected_output].kind # "none"
                           /\ expected_output # target_path
                        THEN [converted EXCEPT
                                ![target_path] = converted[expected_output],
                                ![expected_output] = NoFile]
                        ELSE converted
                      success == moved[target_path].kind # "none"
                  IN /\ fs' = moved
                     /\ last' = [call EXCEPT
                                   !.ran = TRUE, !.produced = produced,
                                   !.returncode = result.returncode,
                                   !.success = success,
                                   !.error_message =
                                     IF success THEN "" ELSE "stderr"]

\* source_obj.suffix.lower().lstrip('.')
FormatOf == ("doc.odt" :> "odt") @@ ("doc.docx" :> "docx") @@ ("doc.ods" :> "ods")

\* the files an earlier conversion may have left at a path
LeftAt(path) ==
  {NoFile} \cup {ConvertedFile(FormatOf[path], text) : text \in {<<>>, <<"a">>}}

InitConvert ==
  /\ fs \in [AllPaths -> UNION {LeftAt(p) : p \in Paths}]
  /\ \A p \in Paths : fs[p] \in LeftAt(p)
  /\ \A p \in AllPaths \ Paths : fs[p] = NoFile
  /\ last = NoCall

NextConvert ==
  \/ \E source_path \in Paths, target_path \in Paths,
        target_format \in TargetFormats :
       ConvertDocument(source_path, target_path, target_format)
  \/ Respond

SpecConvert == InitConvert /\ [][NextConvert]_vars

\* C14: whenever the converter exits non-zero or leaves no output file
\* during convert_document, the result has success = false and an
\* error_message with the converter's captured diagnostic text; success =
\* true is returned only when this call's conversion made the target file.
C14_ConversionFailuresReported ==
  (last.op = "convert" /\ last.ran) =>
    /\ (last.conv # "" \/ last.returncode # 0 \/ ~last.produced) =>
         /\ ~last.success
         /\ last.error_message # ""
         /\ last.conv = "" => last.error_message = "stderr"
    /\ last.success => last.produced

(***************************************************************************)
(* The paragraphs _create_minimal_odt writes.                              *)
(***************************************************************************)
\* the paragraph elements of the container the last call wrote
WrittenParagraphs ==
  ParagraphTexts(FromString(GetEntry(fs[last.path], "content.xml").data), 1)

\* C15: for every content, _create_minimal_odt writes one paragraph
\* element per "\n"-separated segment, in order: the k-th element holds
\* the k-th segment, and a zero-length segment is an empty paragraph
\* element, not a gap.
C15_OneParagraphPerSegment ==
  (last.raised = "" /\ last.wrote = "minimal_odt") =>
    LET segments == Split(last.new_content, "\n")
    IN /\ FromString(GetEntry(fs[last.path], "content.xml").data).ok
       /\ Len(WrittenParagraphs) = Len(segments)
       /\ \A k \in 1..Len(segments) :
            WrittenParagraphs[k] =
              IF Strip(segments[k]) = <<>> THEN <<>> ELSE segments[k]

\* a body whose first segment has length zero was written: two elements
C15_Witness ==
  /\ last.raised = "" /\ last.wrote = "minimal_odt"
  /\ last.new_content = <<"\n", "a">>
  /\ WrittenParagraphs = <<<<>>, <<"a">>>>

(***************************************************************************)
(* Edits as seen through reads.                                            *)
(***************************************************************************)
\* C16: after every insert_text_at_position that returned, what
\* read_document_text returns is the text-recombination policy applied to
\* what it returned just before the call (the call's `existing`) and the
\* call's text and position; whichever way the read gets its text.
C16_ReadAfterInsertIsPolicy ==
  (last.op = "insert" /\ last.raised = "") =>
    \A result \in ConverterOutcomes, found \in BOOLEAN :
      LET r == ReadDocumentTextOf(fs[last.path], last.path, result, found)
      IN r.raised = "" =>
           r.content = NewContent(last.position, last.text, last.existing)

(***************************************************************************)
(* Writing where the directory of path denies writing: every attempt to    *)
(* create a file in it raises PermissionError, a subclass of OSError       *)
(* (IOError), the converter leaves no output there, and the directory      *)
(* holds no file.                                                          *)
(***************************************************************************)
IOErrors == {"OSError", "IOError", "PermissionError"}

\* create_document: zipfile.ZipFile(path_obj, 'w', ...) and path_obj.touch()
\* raise, in the except clause of the empty branch too; the outer handler
\* turns whatever was raised into RuntimeError
CreateDocumentUnwritable(path, doc_type, content) ==
  /\ Idle
  /\ fs' = fs
  /\ \E result \in ConverterOutcomes :
       last' = [NoCall EXCEPT !.op = "create", !.path = path,
                              !.doc_type = doc_type, !.text = content,
                              !.ran = TRUE, !.conv = result,
                              !.fault = "directory",
                              !.raised = "RuntimeError"]

\* _create_minimal_odt: zipfile.ZipFile(path, 'w', ...) raises and nothing
\* catches it
CreateMinimalOdtUnwritable(path, content) ==
  /\ Idle
  /\ fs' = fs
  /\ last' = [NoCall EXCEPT !.op = "write", !.path = path,
                            !.new_content = content,
                            !.fault = "directory",
                            !.raised = "PermissionError"]

NextUnwritable ==
  \/ \E path \in Paths, doc_type \in DOMAIN FormatMap, content \in Texts :
       CreateDocumentUnwritable(path, doc_type, content)
  \/ \E path \in Paths, content \in Texts :
       CreateMinimalOdtUnwritable(path, content)
  \/ Respond

SpecUnwritable == Init /\ [][NextUnwritable]_vars

\* C17: a write into a directory that denies writing fails with an
\* IOError, and afterwards there is no file, partial or complete, at the
\* path.
C17_UnwritableRaisesIOError ==
  (last.op \in {"create", "write"} /\ last.fault = "directory") =>
    /\ last.raised \in IOErrors
    /\ fs[last.path] = NoFile

(***************************************************************************)
(* Overwriting.                                                            *)
(***************************************************************************)
\* the file is one a writer of the program, or the converter, makes from
\* content; the empty file touch() makes counts as made from no content
MadeFrom(file, content) ==
  \/ file \in {ConvertedFile("odt", content), CreateFallbackOdt(content),
               CreateMinimalOdt(content)}
  \/ content = <<>> /\ file = RawFile(<<>>)

\* C18: after create_document(path, "writer", content) returns, and after
\* _create_minimal_odt(path, content) returns, the file at path is the one
\* made from content, whatever was at path before, empty content included.
C18_Overwrites ==
  /\ (last.op = "create" /\ last.doc_type = "writer" /\ last.raised = ""
        /\ last.fault = "") => MadeFrom(fs[last.path], last.text)
  /\ (last.raised = "" /\ last.wrote = "minimal_odt")
        => MadeFrom(fs[last.path], last.new_content)

(***************************************************************************)
(* Inserting into a freshly created document.                              *)
(***************************************************************************)
\* the file is one create_document leaves when it returns and nothing
\* fails underneath it
MadeByCreate(file) ==
  \/ file = RawFile(<<>>)
  \/ \E content \in Texts :
       file \in {ConvertedFile("odt", content), CreateFallbackOdt(content)}

\* C19: whatever the text, insert_text_at_position at "end" on a document
\* create_document made returns (the file system not failing), and a
\* read_document_text after it returns too.
C19_AnyTextAccepted ==
  [][(/\ last'.op = "insert" /\ last'.position \in {"", "end"}
      /\ last'.fault = ""
      /\ last'.raised # "FileNotFoundError"
      /\ MadeByCreate(fs[last'.path]))
       => /\ last'.raised = ""
          /\ \A result \in ConverterOutcomes, found \in BOOLEAN :
               ReadDocumentTextOf(fs'[last'.path], last'.path,
                                  result, found).raised = ""]_vars

(***************************************************************************)
(* What create_document returns.                                           *)
(***************************************************************************)
\* C20: whenever create_document returns, on whichever branch, there is a
\* file at the path it returns and the descriptor says exists = true; the
\* path returned is the path given, with the document type's extension
\* appended when the path given had no suffix.
C20_CreateReturnsExistingFile ==
  (last.op = "create" /\ last.raised = "") =>
    /\ Exists(last.path)
    /\ last.exists
    /\ last.path = IF last.given = "doc"
                   THEN (IF last.doc_type = "writer" THEN "doc.odt" ELSE "doc.ods")
                   ELSE last.given

\* an empty spreadsheet asked for at a path without suffix: touch() made it
C20_Witness ==
  /\ last.op = "create" /\ last.raised = "" /\ last.given = "doc"
  /\ last.doc_type = "calc" /\ last.path = "doc.ods"
  /\ last.wrote = "touch" /\ fs["doc.ods"] = RawFile(<<>>) /\ last.exists

(***************************************************************************)
(* Positions the policy does not know.                                     *)
(***************************************************************************)
\* C21: insert_text_at_position with a position other than "start", "end"
\* and "replace" raises, leaves the document as it was and makes no backup
\* file.
C21_InvalidPositionRejected ==
  [][(last'.op = "insert" /\ last'.position = "middle")
       => /\ last'.raised # ""
          /\ fs' = fs]_vars

\* an insert at "middle" on a document that is there has raised
C21_Witness ==
  /\ last.op = "insert" /\ last.position = "middle"
  /\ last.raised = "RuntimeError"
  /\ Exists(last.path) /\ ~Exists(BackupPath(last.path))

WatchedFile(size, mtime) ==
  [kind |-> "raw", format |-> "", text |-> <<>>, entries |-> <<>>,
   size |-> size, mtime |-> mtime]

WatchPath == "doc.odt"

InitWatch ==
  /\ \E size \in 0..MaxSize :
       fs = [p \in AllPaths |->
               IF p = WatchPath THEN WatchedFile(size, 0) ELSE NoFile]
  /\ last = NoCall

\* change_info, timestamps left out
ChangeInfo(initial_size, current_size) ==
  [size_before |-> initial_size, size_after |-> current_size,
   size_change |-> current_size - initial_size]

\* a watch that never moves its baseline
Baseline_Keep(initial, current) == initial

\* `# Update baseline`: initial_size = current_size, initial_mtime = current_mtime
Baseline(initial, current) == current

\* a loop that goes round once more
Continues_OneMore(elapsed, duration_seconds) == elapsed <= duration_seconds

\* while time.time() - start_time < duration_seconds
Continues(elapsed, duration_seconds) == elapsed < duration_seconds

Watching == last.op = "watch" /\ last.pc \in {"stat", "loop", "return"}

\* path_obj.exists(), ahead of the try block
WatchStart(path) ==
  /\ Idle
  /\ fs' = fs
  /\ IF ~Exists(path)
     THEN last' = [op |-> "watch", path |-> path, pc |-> "done",
                   raised |-> "FileNotFoundError"]
     ELSE \E duration_seconds \in 0..MaxDuration :
          last' = [op |-> "watch", path |-> path, pc |-> "stat",
                   duration_seconds |-> duration_seconds, raised |-> ""]

\* initial_stat = path_obj.stat(); start_time = time.time()
WatchStat ==
  /\ last.op = "watch" /\ last.pc = "stat"
  /\ fs' = fs
  /\ IF ~Exists(last.path)
     THEN last' = [op |-> "watch", path |-> last.path, pc |-> "done",
                   raised |-> "RuntimeError"]
     ELSE last' = [op |-> "watch", path |-> last.path, pc |-> "loop",
                   duration_seconds |-> last.duration_seconds, raised |-> "",
                   started_size |-> fs[last.path].size,
                   initial_size |-> fs[last.path].size,
                   initial_mtime |-> fs[last.path].mtime,
                   elapsed |-> 0, polls |-> 0, deleted |-> FALSE,
                   changes_detected |-> <<>>]

\* one turn of the loop: stat, compare, record, sleep; it takes at least
\* the second time.sleep(1) takes
WatchPoll ==
  /\ last.op = "watch" /\ last.pc = "loop"
  /\ Continues(last.elapsed, last.duration_seconds)
  /\ fs' = fs
  /\ IF ~Exists(last.path)
     THEN \* except FileNotFoundError: break
          last' = [last EXCEPT !.pc = "return", !.polls = @ + 1,
                               !.deleted = TRUE]
     ELSE \E took \in 1..MaxPoll :
          LET current == fs[last.path]
              changed == \/ current.mtime > last.initial_mtime
                         \/ current.size # last.initial_size
          IN last' = [last EXCEPT
                        !.polls = @ + 1,
                        !.elapsed = @ + took,
                        !.changes_detected =
                          IF changed
                          THEN Append(@, ChangeInfo(last.initial_size, current.size))
                          ELSE @,
                        !.initial_size =
                          IF changed THEN Baseline(@, current.size) ELSE @,
                        !.initial_mtime =
                          IF changed THEN Baseline(@, current.mtime) ELSE @]

\* the loop is left: return {"success": True, "changes_detected":
\* len(changes_detected), "changes": changes_detected, ...}
WatchReturn ==
  /\ last.op = "watch"
  /\ \/ last.pc = "return"
     \/ last.pc = "loop" /\ ~Continues(last.elapsed, last.duration_seconds)
  /\ fs' = fs
  /\ last' = [op |-> "watch", path |-> last.path, pc |-> "done",
              raised |-> "", success |-> TRUE,
              duration_seconds |-> last.duration_seconds,
              started_size |-> last.started_size,
              polls |-> last.polls, deleted |-> last.deleted,
              changes_detected |-> Len(last.changes_detected),
              changes |-> last.changes_detected]

\* the result (or the error) goes back to the client
WatchRespond ==
  /\ last.op = "watch" /\ last.pc = "done"
  /\ last' = NoCall
  /\ fs' = fs

\* something else writes to the watched file
Modify ==
  /\ Watching
  /\ Exists(WatchPath)
  /\ \E size \in 0..MaxSize, mtime \in fs[WatchPath].mtime..MaxMtime :
       /\ <<size, mtime>> # <<fs[WatchPath].size, fs[WatchPath].mtime>>
       /\ fs' = [fs EXCEPT ![WatchPath] = WatchedFile(size, mtime)]
  /\ last' = last

\* something else deletes the watched file
Delete ==
  /\ Watching
  /\ Exists(WatchPath)
  /\ fs' = [fs EXCEPT ![WatchPath] = NoFile]
  /\ last' = last

NextWatch ==
  \/ WatchStart(WatchPath)
  \/ WatchStat
  \/ WatchPoll
  \/ WatchReturn
  \/ WatchRespond
  \/ Modify
  \/ Delete

SpecWatch == InitWatch /\ [][NextWatch]_vars

\* the watch is scheduled: its thread keeps running until it returns
FairSpecWatch ==
  SpecWatch /\ WF_vars(WatchStat) /\ WF_vars(WatchPoll) /\ WF_vars(WatchReturn)

WatchReturned == last.op = "watch" /\ last.pc = "done" /\ last.raised = ""

\* C23: in what watch_document_changes returns, every record has
\* size_change = size_after - size_before, the first record's size_before
\* is the size seen when the watch started, every later record's
\* size_before is the size_after of the record before it, and
\* changes_detected is the number of records.
C23_ChangeChain ==
  WatchReturned =>
    /\ last.changes_detected = Len(last.changes)
    /\ \A i \in 1..Len(last.changes) :
         /\ last.changes[i].size_change =
              last.changes[i].size_after - last.changes[i].size_before
         /\ last.changes[i].size_before =
              IF i = 1 THEN last.started_size
              ELSE last.changes[i - 1].size_after

\* a watch returned two records, the second starting where the first ended
C23_Witness ==
  /\ WatchReturned
  /\ Len(last.changes) = 2
  /\ last.changes[1].size_after # last.changes[1].size_before
  /\ last.changes[2].size_before = last.changes[1].size_after
  /\ last.changes[2].size_after # last.changes[2].size_before

\* C30: watch_document_changes comes to an end; it makes at most
\* duration_seconds polls; and when the file is deleted while it polls, the
\* poll that finds it gone is its last and it returns success with the
\* records it has, raising nothing.
C30_WatchTerminates ==
  /\ [](last.op = "watch" /\ last.pc \in {"loop", "return"}
          => /\ last.polls <= last.duration_seconds
             /\ last.pc = "return" => last.deleted)
  /\ [](WatchReturned => /\ last.success
                    /\ last.polls <= last.duration_seconds)
  /\ (last.op = "watch" /\ last.pc = "loop") ~> WatchReturned
  /\ Watching ~> (last.op = "watch" /\ last.pc = "done")

\* the file went away under a watch, which returned what it had by then
C30_Witness ==
  /\ WatchReturned /\ last.deleted /\ last.success
  /\ last.polls = 2 /\ last.duration_seconds = 2
  /\ Len(last.changes) = 1

(***************************************************************************)
(* insert_text_at_position on one document, in a directory that holds      *)
(* other files too: files that already bear the name of a backup.          *)
(***************************************************************************)
InitFrame ==
  /\ fs \in [AllPaths -> {NoFile, RawFile(<<"a">>), CreateFallbackOdt(<<"a">>)}]
  /\ \E path \in Paths : Exists(path) /\ Tracked(path)
  /\ \A p \in AllPaths \ Paths : fs[p] \in {NoFile, RawFile(<<"a">>)}
  /\ last = NoCall

NextFrame ==
  \/ \E path \in Paths : InsertTextAtPosition(path)
  \/ Respond

SpecFrame == InitFrame /\ [][NextFrame]_vars

\* the call got as far as making its backup
BackupMade ==
  /\ last.op = "insert"
  /\ \/ last.raised = "" /\ last.wrote # ""
     \/ last.fault \in {"rewrite", "rewrite_restore"}

\* C24: on every way out of insert_text_at_position that lies behind the
\* making of the backup (the rewrite went through, or it failed and the
\* backup was copied back), there is no file at path + ".backup" when the
\* call returns or raises.
C24_NoBackupRemains ==
  BackupMade => ~Exists(BackupPath(last.path))

\* the rewrite failed, the document was put back, the backup is gone
C24_Witness ==
  /\ last.op = "insert" /\ last.fault = "rewrite"
  /\ last.raised = "RuntimeError"
  /\ Exists(last.path)
  /\ ~Exists(BackupPath(last.path))

\* C25: insert_text_at_position changes no file but the document at path:
\* every other file of the directory, one named path + ".backup" among
\* them, is after the call what it was before.
C25_Frame ==
  [][last'.op = "insert"
       => \A p \in AllPaths \ {last'.path} : fs'[p] = fs[p]]_vars

(***************************************************************************)
(* _run_libreoffice_command on its own, on a machine where each of the     *)
(* three executable names is missing, runs and exits 0, runs and exits     *)
(* non-zero, or runs into the timeout.  `last.exes` is the machine.        *)
(***************************************************************************)
InitRun ==
  /\ fs = [p \in AllPaths |-> NoFile]
  /\ \E exes \in ExeConfigs : last = [op |-> "", exes |-> exes]

RunCommand ==
  /\ Idle
  /\ fs' = fs
  /\ last' = [op |-> "run", exes |-> last.exes,
              raised |-> RunLibreOfficeCommand(last.exes).raised,
              returncode |-> RunLibreOfficeCommand(last.exes).returncode]

\* the caller has the result, or the exception
RunDone ==
  /\ last.op = "run"
  /\ fs' = fs
  /\ last' = [op |-> "", exes |-> last.exes]

NextRun == RunCommand \/ RunDone

SpecRun == InitRun /\ [][NextRun]_vars

\* C26: _run_libreoffice_command raises FileNotFoundError only when none
\* of libreoffice, loffice, soffice is there; when one of them was found
\* and ran to its end (and none ran into the timeout), a result of an
\* executable that ran is returned.
C26_NotFoundOnlyWhenNoneExists ==
  last.op = "run" =>
    /\ last.raised = "FileNotFoundError"
         => \A i \in 1..Len(Executables) : last.exes[i] = "missing"
    /\ (/\ \E i \in 1..Len(Executables) : last.exes[i] \in {"ok", "fail"}
        /\ \A i \in 1..Len(Executables) : last.exes[i] # "timeout")
         => last.raised = ""

\* C27: convert_document never raises: a missing source, a target
\* directory that cannot be made, an absent converter, a timeout and a
\* missing output all come back as a ConversionResult, and in every
\* result error_message is null exactly when success is true.
C27_ConvertNeverRaises ==
  last.op = "convert" =>
    /\ last.raised = ""
    /\ last.error_message = "" <=> last.success

(***************************************************************************)
(* The extension: MCPExtension of plugin/pythonpath/registration.py.       *)
(* `last` is the extension object with the threads that run its methods:   *)
(* "auto" is the thread on_extension_load spawns for _start_mcp_server,    *)
(* "ui" is the thread the office suite calls trigger on.  pc[t] is the     *)
(* statement thread t is about to run.                                     *)
(***************************************************************************)
Threads == {"auto", "ui"}

\* the arguments trigger dispatches on, and one it does not know
TriggerArgs ==
  {"start_mcp_server", "stop_mcp_server", "restart_mcp_server", "get_status",
   "unknown"}

NoStatus == [started |-> FALSE, mcp_server |-> FALSE, ai_interface |-> FALSE]

\* MCPExtension.__init__, and the thread on_extension_load starts;
\* `instance` is the module-level server get_mcp_server creates once,
\* `ai_starts` counts the AI interfaces started since the last one stopped
NewExtension ==
  [op |-> "extension", started |-> FALSE, mcp_server |-> FALSE,
   ai_interface |-> FALSE, instance |-> FALSE, ai_starts |-> 0,
   pc |-> [t \in Threads |-> IF t = "auto" THEN "start_check" ELSE "idle"],
   args |-> [t \in Threads |-> IF t = "auto" THEN "start_mcp_server" ELSE ""],
   status |-> NoStatus, logged |-> ""]

InitExtension ==
  /\ fs = [p \in AllPaths |-> NoFile]
  /\ last = NewExtension

Quiescent == \A t \in Threads : last.pc[t] = "idle"

\* _get_status: the three fields of the status
GetStatus(ext) ==
  [started |-> ext.started, mcp_server |-> ext.mcp_server,
   ai_interface |-> ext.ai_interface]

\* where a finished _stop_mcp_server returns to: _restart_mcp_server goes
\* on with _start_mcp_server, trigger returns
AfterStop(ext, t) ==
  IF ext.args[t] = "restart_mcp_server" THEN "start_check" ELSE "idle"

\* trigger(args) on the ui thread; `alone`: the call comes when no other
\* call is in progress
Trigger(args, alone) ==
  /\ last.op = "extension"
  /\ last.pc["ui"] = "idle"
  /\ alone => Quiescent
  /\ fs' = fs
  /\ last' =
       CASE args = "start_mcp_server" ->
              [last EXCEPT !.pc["ui"] = "start_check", !.args["ui"] = args,
                           !.logged = ""]
         [] args \in {"stop_mcp_server", "restart_mcp_server"} ->
              [last EXCEPT !.pc["ui"] = "stop_check", !.args["ui"] = args,
                           !.logged = ""]
         [] args = "get_status" ->
              [last EXCEPT !.status = GetStatus(last), !.args["ui"] = args,
                           !.logged = ""]
         [] OTHER ->
              [last EXCEPT !.args["ui"] = args, !.logged = "warning"]

\* if self.started: warning, return
StartCheck(t) ==
  /\ last.op = "extension"
  /\ last.pc[t] = "start_check"
  /\ fs' = fs
  /\ last' = IF last.started
             THEN [last EXCEPT !.pc[t] = "idle", !.logged = "warning"]
             ELSE [last EXCEPT !.pc[t] = "start_mcp"]

McpServerSet_Started(ext, t) ==
  [ext EXCEPT !.mcp_server = TRUE, !.instance = TRUE, !.started = TRUE,
              !.pc[t] = "start_ai"]

\* self.mcp_server = get_mcp_server(), which makes the module's server
\* on its first call
McpServerSet(ext, t) ==
  [ext EXCEPT !.mcp_server = TRUE, !.instance = TRUE, !.pc[t] = "start_ai"]

\* the imports and self.mcp_server = get_mcp_server(); an exception goes
\* to the except clause, which logs it and changes no field
StartMcp(t) ==
  /\ last.op = "extension"
  /\ last.pc[t] = "start_mcp"
  /\ fs' = fs
  /\ \E ok \in BOOLEAN :
       last' = IF ok
               THEN McpServerSet(last, t)
               ELSE [last EXCEPT !.pc[t] = "idle", !.logged = "error"]

\* self.ai_interface = start_ai_interface(port=8765, host="localhost")
StartAi(t) ==
  /\ last.op = "extension"
  /\ last.pc[t] = "start_ai"
  /\ fs' = fs
  /\ \E ok \in BOOLEAN :
       last' = IF ok
               THEN [last EXCEPT !.ai_interface = TRUE,
                                 !.ai_starts = @ + 1,
                                 !.pc[t] = "start_set"]
               ELSE [last EXCEPT !.pc[t] = "idle", !.logged = "error"]

\* self.started = True, after both references are set
StartSet(t) ==
  /\ last.op = "extension"
  /\ last.pc[t] = "start_set"
  /\ fs' = fs
  /\ last' = [last EXCEPT !.started = TRUE, !.pc[t] = "idle",
                          !.logged = "info"]

\* if not self.started: warning, return
StopCheck(t) ==
  /\ last.op = "extension"
  /\ last.pc[t] = "stop_check"
  /\ fs' = fs
  /\ last' = IF ~last.started
             THEN [last EXCEPT !.pc[t] = AfterStop(last, t),
                               !.logged = "warning"]
             ELSE [last EXCEPT !.pc[t] = "stop_ai"]

\* if self.ai_interface: stop_ai_interface(); self.ai_interface = None
StopAi(t) ==
  /\ last.op = "extension"
  /\ last.pc[t] = "stop_ai"
  /\ fs' = fs
  /\ IF ~last.ai_interface
     THEN last' = [last EXCEPT !.pc[t] = "stop_mcp"]
     ELSE \E ok \in BOOLEAN :
          last' = IF ok
                  THEN [last EXCEPT !.ai_interface = FALSE, !.ai_starts = 0,
                                    !.pc[t] = "stop_mcp"]
                  ELSE [last EXCEPT !.pc[t] = AfterStop(last, t),
                                    !.logged = "error"]

\* self.mcp_server = None
StopMcp(t) ==
  /\ last.op = "extension"
  /\ last.pc[t] = "stop_mcp"
  /\ fs' = fs
  /\ last' = [last EXCEPT !.mcp_server = FALSE, !.pc[t] = "stop_set"]

\* self.started = False
StopSet(t) ==
  /\ last.op = "extension"
  /\ last.pc[t] = "stop_set"
  /\ fs' = fs
  /\ last' = [last EXCEPT !.started = FALSE, !.pc[t] = AfterStop(last, t),
                          !.logged = "info"]

\* the triggers come one after the other, the first after the start that
\* on_extension_load began has ended
NextExtension ==
  \/ \E args \in TriggerArgs : Trigger(args, TRUE)
  \/ \E t \in Threads : StartCheck(t)
  \/ \E t \in Threads : StartMcp(t)
  \/ \E t \in Threads : StartAi(t)
  \/ \E t \in Threads : StartSet(t)
  \/ \E t \in Threads : StopCheck(t)
  \/ \E t \in Threads : StopAi(t)
  \/ \E t \in Threads : StopMcp(t)
  \/ \E t \in Threads : StopSet(t)

SpecExtension == InitExtension /\ [][NextExtension]_vars

\* trigger is called while the thread of on_extension_load may be running
NextLoad ==
  \/ \E args \in TriggerArgs : Trigger(args, FALSE)
  \/ \E t \in Threads : StartCheck(t)
  \/ \E t \in Threads : StartMcp(t)
  \/ \E t \in Threads : StartAi(t)
  \/ \E t \in Threads : StartSet(t)
  \/ \E t \in Threads : StopCheck(t)
  \/ \E t \in Threads : StopAi(t)
  \/ \E t \in Threads : StopMcp(t)
  \/ \E t \in Threads : StopSet(t)

SpecLoad == InitExtension /\ [][NextLoad]_vars

\* C28: after any sequence of start_mcp_server, stop_mcp_server and
\* restart_mcp_server triggers, starts and stops in which a step fails
\* included, started is true exactly when the MCP server reference and
\* the AI interface reference are both set, and so says every status
\* that get_status returned.
C28_StartedIffBothSet ==
  (last.op = "extension" /\ Quiescent) =>
    /\ last.started <=> (last.mcp_server /\ last.ai_interface)
    /\ last.status.started
         <=> (last.status.mcp_server /\ last.status.ai_interface)

\* a restart whose start failed at the AI interface, after an earlier
\* status showed the extension running
C28_Witness ==
  /\ last.op = "extension"
  /\ Quiescent
  /\ last.args["ui"] = "restart_mcp_server"
  /\ last.logged = "error"
  /\ last.status.started
  /\ ~last.started /\ last.mcp_server /\ ~last.ai_interface

\* C29: with _start_mcp_server running in the thread on_extension_load
\* started and trigger("start_mcp_server") running in another thread, the
\* AI interface is started at most once between two stops.
C29_AiStartedOnce ==
  last.op = "extension" => last.ai_starts <= 1

====
